---- MODULE Spec2Model ----
(***************************************************************************)
(* Model of obspy/scripts/runtests.py: main() and upload_json_report().    *)
(*                                                                         *)
(* One run of obspy-runtests: requirement check, argument parsing, the     *)
(* pytest run inside obspy's directory, and the report upload (consent,    *)
(* de-duplication of the warnings, the HTTP POST, the printed outcome).    *)
(*                                                                         *)
(* Representation:                                                         *)
(*   - a str that the code inspects character by character (the answer     *)
(*     read from standard input) is a sequence of one-character strings;   *)
(*   - a Python dict (a warning record) is [order, map]: the insertion     *)
(*     order of its keys and the key -> value mapping.  Python's dict ==   *)
(*     compares the mapping only; d.items() lists the pairs in insertion   *)
(*     order;                                                              *)
(*   - a printed line is the sequence of the pieces it is formatted from.  *)
(***************************************************************************)
EXTENDS Integers, Sequences, FiniteSets, TLC

VARIABLES
    pc,                    \* position of the run in main()/upload_json_report()
    argv,                  \* sys.argv[1:], as the set of its arguments
    requirementsInstalled, \* environment: all PYTEST_REQUIRES are installed
    report,                \* local `report`: "True", "False" or "None"
    cwd,                   \* the process's working directory
    status,                \* pytest.main's return value (-1: not run yet)
    pluginReport,          \* plugin.report as pytest produced it
    data,                  \* the `data` object (plugin.report, mutated in place)
    answer,                \* the line read by input()
    stdinReads,            \* number of input() calls made
    posts,                 \* JSON bodies handed to requests.post, in order
    response,              \* the response requests.post returned
    stdout,                \* lines printed, in order
    exc,                   \* the exception that escaped main(), or "none"
    exitCode,              \* process exit code (-1: still running)
    log                    \* pipeline steps performed so far, in order

vars == <<pc, argv, requirementsInstalled, report, cwd, status, pluginReport,
          data, answer, stdinReads, posts, response, stdout, exc, exitCode, log>>

-----------------------------------------------------------------------------
(* Bounds and input domains *)

MaxWarnings == 2

REPORT_URL == "tests.obspy.org"

Args == {"--report", "--no-report", "--help", "-h"}

PytestStatuses == {0, 1}

\* key/value pairs a warning record may hold
WarningItems == {<<"a", 1>>, <<"a", 2>>, <<"b", 2>>}

Range(s) == {s[i] : i \in DOMAIN s}

IsInjective(s) == \A i, j \in DOMAIN s : s[i] = s[j] => i = j

\* All orderings of a finite set as sequences without repetition
Orderings(S) == {s \in [1..Cardinality(S) -> S] : IsInjective(s)}

\* dict(t) for a tuple t of (key, value) pairs with distinct keys
dict(t) ==
    [order |-> [i \in DOMAIN t |-> t[i][1]],
     map   |-> [k \in {t[i][1] : i \in DOMAIN t} |->
                  (CHOOSE p \in Range(t) : p[1] = k)[2]]]

\* tuple(d.items()): the pairs of d in insertion order
items(d) == [i \in DOMAIN d.order |-> <<d.order[i], d.map[d.order[i]]>>]

ItemTuples ==
    {t \in UNION {[1..n -> WarningItems] : n \in 1..2} :
        \A i, j \in DOMAIN t : t[i][1] = t[j][1] => i = j}

WarningRecords == {dict(t) : t \in ItemTuples}

WarningSeqs == UNION {[1..n -> WarningRecords] : n \in 0..MaxWarnings}

Summaries == {"1 passed"}

Reports == [summary : Summaries, warnings : WarningSeqs]

NoReport == [summary |-> "", warnings |-> <<>>]

\* Lines a user may type at the prompt
Answers ==
    { <<>>,
      <<"y">>, <<"Y">>, <<"n">>,
      <<"y", "e", "s">>,
      <<"y", "e", "p">>,
      <<"n", "o">>, <<"N", "O">>,
      <<"w", "h", "y", " ", "n", "o", "t">>,
      <<"m", "a", "y", "b", "e", " ", "l", "a", "t", "e", "r">> }

\* Response bodies: a JSON object (its fields as key/value pairs), JSON that
\* is not an object, or text that is not JSON
Bodies ==
    { [kind |-> "object", fields |-> {<<"url", "https://tests.example/r/42">>}],
      [kind |-> "object", fields |-> {<<"id", "42">>}],
      [kind |-> "array",  fields |-> {}],
      [kind |-> "not json", fields |-> {}] }

ErrorBodies == { [kind |-> "not json", fields |-> {}] }

Responses ==
    [status_code : {200}, reason : {"OK"}, body : Bodies]
    \cup [status_code : {503}, reason : {"Service Unavailable"}, body : ErrorBodies]
    \cup [status_code : {404}, reason : {"Not Found"}, body : ErrorBodies]

NoResponse == [status_code |-> 0, reason |-> "", body |-> [kind |-> "not json", fields |-> {}]]

-----------------------------------------------------------------------------
(* Pure parts of the code *)

\* main, lines 96-97
ExplicitConsent(args) ==
    IF "--report" \in args THEN "True"
    ELSE IF "--no-report" \in args THEN "False"
    ELSE "None"

\* main, line 98
HelpRequested(args) == "-h" \in args \/ "--help" \in args

\* str.lower() on one character of the alphabet the answers use
LowerChar(c) ==
    CASE c = "Y" -> "y"
      [] c = "N" -> "n"
      [] c = "O" -> "o"
      [] OTHER   -> c

\* str.lower()
lower(s) == [i \in DOMAIN s |-> LowerChar(s[i])]

\* Variant of AnswerConsents: the answer is not lower-cased
AnswerConsents_CaseSensitive(ans) == "y" \in Range(ans)

\* lines 122-123: report = 'y' in input(msg).lower()
AnswerConsents(ans) == "y" \in Range(lower(ans))

\* Variant of NeedsPrompt: asks unless the flag said yes
NeedsPrompt_UnlessYes(rep) == rep # "True"

\* line 120
NeedsPrompt(rep) == rep = "None"

\* Variant of Consents: the upload is not guarded by the decision
Consents_Always(rep) == TRUE

\* line 124: `if report:`
Consents(rep) == rep = "True"

\* line 127: {tuple(d.items()) for d in data['warnings']}
UniqueItemTuples(warnings) == {items(warnings[i]) : i \in DOMAIN warnings}

\* lines 126-128: the lists the comprehension may build; a set's iteration
\* order is not defined, so every ordering of the set is possible
UniqueWarnings(warnings) ==
    {[i \in DOMAIN o |-> dict(o[i])] : o \in Orderings(UniqueItemTuples(warnings))}

\* Variant of Get: the key is never looked up
Get_DefaultOnly(fields, key, default) == default

\* dict.get(key, default) on a parsed JSON object
Get(fields, key, default) ==
    IF \E p \in fields : p[1] = key
    THEN (CHOOSE p \in fields : p[1] = key)[2]
    ELSE default

\* line 121
PromptLine == <<"Do you want to report this to ", REPORT_URL, " ? [n]: ">>

\* lines 133-134
SuccessLine(report_url) ==
    <<"Your test results have been reported and are available at: ",
      report_url, "\nThank you!">>

\* Variant of FailureLines: response.reason is not printed
FailureLines_NoReason(resp) ==
    << <<"Error: Could not sent a test report to ", REPORT_URL, ".">> >>

\* lines 137-138: the two lines printed for a status other than 200
FailureLines(resp) ==
    << <<"Error: Could not sent a test report to ", REPORT_URL, ".">>,
       <<resp.reason>> >>

\* line 99: print(__doc__)
DocLine == <<"A command-line program that runs all ObsPy tests.">>

-----------------------------------------------------------------------------
(* Initial state: the process has started, nothing has run *)

Init ==
    /\ pc = "start"
    /\ argv \in SUBSET Args
    /\ requirementsInstalled \in BOOLEAN
    /\ report = "None"
    /\ cwd = "here"
    /\ status = -1
    /\ pluginReport = NoReport
    /\ data = NoReport
    /\ answer = <<>>
    /\ stdinReads = 0
    /\ posts = <<>>
    /\ response = NoResponse
    /\ stdout = <<>>
    /\ exc = "none"
    /\ exitCode = -1
    /\ log = <<>>

\* An exception leaves main(): traceback, exit code 1
Crash(e) ==
    /\ pc' = "crashed"
    /\ exc' = e
    /\ exitCode' = 1

-----------------------------------------------------------------------------
(* main() *)

\* line 91: _ensure_tests_requirements_installed()
EnsureRequirements ==
    /\ pc = "start"
    /\ IF requirementsInstalled
       THEN pc' = "parse_args" /\ UNCHANGED <<exc, exitCode>>
       ELSE Crash("ImportError")
    /\ UNCHANGED <<argv, requirementsInstalled, report, cwd, status, pluginReport,
                   data, answer, stdinReads, posts, response, stdout, log>>

\* lines 96-104: the consent flag, --help, the arguments added for pytest
ParseArgs ==
    /\ pc = "parse_args"
    /\ report' = ExplicitConsent(argv)
    /\ IF HelpRequested(argv)
       THEN /\ stdout' = Append(stdout, DocLine)
            /\ pc' = "done"
            /\ exitCode' = 0
            /\ UNCHANGED argv
       ELSE /\ argv' = argv \cup {"--json-report-file=none", "--tb=native"}
            /\ pc' = "chdir"
            /\ UNCHANGED <<stdout, exitCode>>
    /\ UNCHANGED <<requirementsInstalled, cwd, status, pluginReport, data, answer,
                   stdinReads, posts, response, exc, log>>

\* lines 106-109: remember cwd, enter obspy's directory
ChdirObspy ==
    /\ pc = "chdir"
    /\ cwd' = "obspy"
    /\ pc' = "pytest"
    /\ UNCHANGED <<argv, requirementsInstalled, report, status, pluginReport, data,
                   answer, stdinReads, posts, response, stdout, exc, exitCode, log>>

\* Variant of RunPytest: the working directory is not restored
RunPytest_NoRestore ==
    /\ pc = "pytest"
    /\ \E s \in PytestStatuses, r \in Reports :
         /\ status' = s
         /\ pluginReport' = r
         /\ data' = r
    /\ log' = Append(log, "pytest")
    /\ pc' = "upload"
    /\ UNCHANGED <<argv, requirementsInstalled, report, cwd, answer, stdinReads,
                   posts, response, stdout, exc, exitCode>>

\* lines 110-113: pytest.main fills plugin.report; finally: os.chdir(here)
RunPytest ==
    /\ pc = "pytest"
    /\ \E s \in PytestStatuses, r \in Reports :
         /\ status' = s
         /\ pluginReport' = r
         /\ data' = r
    /\ cwd' = "here"
    /\ log' = log \o <<"pytest", "restore cwd">>
    /\ pc' = "upload"
    /\ UNCHANGED <<argv, requirementsInstalled, report, answer, stdinReads, posts,
                   response, stdout, exc, exitCode>>

-----------------------------------------------------------------------------
(* upload_json_report(report, data) *)

\* Variant of ResolveConsent: the warnings are de-duplicated before the
\* decision is taken
ResolveConsent_NormalizeFirst ==
    /\ pc = "upload"
    /\ \E w \in UniqueWarnings(data.warnings) :
         data' = [data EXCEPT !.warnings = w]
    /\ IF NeedsPrompt(report)
       THEN \E a \in Answers :
              /\ stdout' = Append(stdout, PromptLine)
              /\ stdinReads' = stdinReads + 1
              /\ answer' = a
              /\ report' = IF AnswerConsents(a) THEN "True" ELSE "False"
       ELSE UNCHANGED <<stdout, stdinReads, answer, report>>
    /\ log' = Append(log, "consent")
    /\ pc' = "consent_resolved"
    /\ UNCHANGED <<argv, requirementsInstalled, cwd, status, pluginReport,
                   posts, response, exc, exitCode>>

\* lines 120-123: resolve consent, asking on standard input if no flag was given
ResolveConsent ==
    /\ pc = "upload"
    /\ IF NeedsPrompt(report)
       THEN \E a \in Answers :
              /\ stdout' = Append(stdout, PromptLine)
              /\ stdinReads' = stdinReads + 1
              /\ answer' = a
              /\ report' = IF AnswerConsents(a) THEN "True" ELSE "False"
       ELSE UNCHANGED <<stdout, stdinReads, answer, report>>
    /\ log' = Append(log, "consent")
    /\ pc' = "consent_resolved"
    /\ UNCHANGED <<argv, requirementsInstalled, cwd, status, pluginReport, data,
                   posts, response, exc, exitCode>>

\* line 124, consent is no: the function returns
DeclineUpload ==
    /\ pc = "consent_resolved"
    /\ ~Consents(report)
    /\ pc' = "returned"
    /\ UNCHANGED <<argv, requirementsInstalled, report, cwd, status, pluginReport,
                   data, answer, stdinReads, posts, response, stdout, exc, exitCode,
                   log>>

\* lines 124-128: consent is yes: keep only the unique warnings
NormalizeWarnings ==
    /\ pc = "consent_resolved"
    /\ Consents(report)
    /\ \E w \in UniqueWarnings(data.warnings) :
         data' = [data EXCEPT !.warnings = w]
    /\ log' = Append(log, "normalize")
    /\ pc' = "normalized"
    /\ UNCHANGED <<argv, requirementsInstalled, report, cwd, status, pluginReport,
                   answer, stdinReads, posts, response, stdout, exc, exitCode>>

\* line 129: requests.post returns a response
PostReport ==
    /\ pc = "normalized"
    /\ posts' = Append(posts, data)
    /\ \E r \in Responses : response' = r
    /\ log' = Append(log, "submit")
    /\ pc' = "responded"
    /\ UNCHANGED <<argv, requirementsInstalled, report, cwd, status, pluginReport,
                   data, answer, stdinReads, stdout, exc, exitCode>>

\* line 129: requests.post raises (DNS failure, connection refused, ...);
\* nothing catches it
PostFails ==
    /\ pc = "normalized"
    /\ posts' = Append(posts, data)
    /\ log' = Append(log, "submit")
    /\ Crash("ConnectionError")
    /\ UNCHANGED <<argv, requirementsInstalled, report, cwd, status, pluginReport,
                   data, answer, stdinReads, response, stdout>>

\* lines 131-134: status 200 and the body is a JSON object
ReportSuccess ==
    /\ pc = "responded"
    /\ response.status_code = 200
    /\ response.body.kind = "object"
    /\ stdout' = Append(stdout, SuccessLine(Get(response.body.fields, "url", REPORT_URL)))
    /\ pc' = "returned"
    /\ UNCHANGED <<argv, requirementsInstalled, report, cwd, status, pluginReport,
                   data, answer, stdinReads, posts, response, exc, exitCode, log>>

\* line 132: response.json() raises on a body that is not JSON, and .get
\* raises on JSON that is not an object; nothing catches either
ReportSuccessFails ==
    /\ pc = "responded"
    /\ response.status_code = 200
    /\ response.body.kind # "object"
    /\ Crash(IF response.body.kind = "not json" THEN "JSONDecodeError"
             ELSE "AttributeError")
    /\ UNCHANGED <<argv, requirementsInstalled, report, cwd, status, pluginReport,
                   data, answer, stdinReads, posts, response, stdout, log>>

\* lines 136-138: any other status
ReportFailure ==
    /\ pc = "responded"
    /\ response.status_code # 200
    /\ stdout' = stdout \o FailureLines(response)
    /\ pc' = "returned"
    /\ UNCHANGED <<argv, requirementsInstalled, report, cwd, status, pluginReport,
                   data, answer, stdinReads, posts, response, exc, exitCode, log>>

\* line 115: sys.exit(status)
SysExit ==
    /\ pc = "returned"
    /\ exitCode' = status
    /\ pc' = "done"
    /\ UNCHANGED <<argv, requirementsInstalled, report, cwd, status, pluginReport,
                   data, answer, stdinReads, posts, response, stdout, exc, log>>

Next ==
    \/ EnsureRequirements
    \/ ParseArgs
    \/ ChdirObspy
    \/ RunPytest
    \/ ResolveConsent
    \/ DeclineUpload
    \/ NormalizeWarnings
    \/ PostReport
    \/ PostFails
    \/ ReportSuccess
    \/ ReportSuccessFails
    \/ ReportFailure
    \/ SysExit

Spec == Init /\ [][Next]_vars

-----------------------------------------------------------------------------
(* Vocabulary of the properties *)

\* The answer holds the letter y in either case
ContainsY(ans) == \E i \in DOMAIN ans : ans[i] \in {"y", "Y"}

NoFlag == "--report" \notin argv /\ "--no-report" \notin argv

ConsentResolved == "consent" \in Range(log)

\* Consent resolved to yes: --report, or an affirmative answer with no flag
ConsentYes ==
    ConsentResolved /\ ("--report" \in argv \/ (NoFlag /\ ContainsY(answer)))

ConsentNo ==
    ConsentResolved /\ ~("--report" \in argv \/ (NoFlag /\ ContainsY(answer)))

IsSuccessLine(l) ==
    Len(l) > 0 /\ l[1] = "Your test results have been reported and are available at: "

IsErrorLine(l) ==
    Len(l) > 0 /\ l[1] = "Error: Could not sent a test report to "

\* The pieces of the failure message: the error line and what follows it
FailureMessage ==
    UNION {Range(stdout[j]) :
             j \in {k \in DOMAIN stdout : \E i \in 1..k : IsErrorLine(stdout[i])}}

\* Something other than the prompt was printed
OutcomePrinted == \E i \in DOMAIN stdout : stdout[i] # PromptLine

\* str(status_code)
StatusText(code) ==
    CASE code = 200 -> "200"
      [] code = 404 -> "404"
      [] code = 503 -> "503"
      [] OTHER      -> "0"

\* A response came back with a status other than 200 and was handled
FailureHandled == response.status_code \notin {0, 200} /\ pc # "responded"

\* b never happens in the log without a before it
Before(a, b) ==
    \A j \in DOMAIN log : log[j] = b => \E i \in 1..(j - 1) : log[i] = a

UploadSteps == {"consent", "normalize", "submit"}

IsPrefix(s, t) == Len(s) <= Len(t) /\ \A i \in DOMAIN s : s[i] = t[i]

\* The same key/value pairs, whatever the order of the keys
SameRecord(d, e) == d.map = e.map

-----------------------------------------------------------------------------
(* Properties *)

\* C1: at most one POST of the report is issued in a run, whatever the
\* response, and a POST is issued only if consent resolved to yes (--report,
\* or an answer with a y when no flag was given); none when it resolved to no.
C1_AtMostOnePostOnlyWithConsent ==
    /\ Len(posts) <= 1
    /\ posts # <<>> => ConsentYes
    /\ ConsentNo => posts = <<>>

C1_Witness ==
    /\ pc = "done"
    /\ Len(posts) = 1
    /\ response.status_code = 503
    /\ NoFlag
    /\ stdinReads = 1

\* C2 (as claimed): the POSTed warnings hold every distinct record of the
\* original warnings exactly once and nothing else, two records being the
\* same when they have the same key/value pairs, in whatever key order; an
\* empty sequence is sent as an empty list.
C2_PostedWarningsAreDistinctRecords ==
    posts # <<>> =>
        LET sent == posts[1].warnings
            orig == pluginReport.warnings
        IN  /\ \A i \in DOMAIN orig :
                 Cardinality({j \in DOMAIN sent : SameRecord(sent[j], orig[i])}) = 1
            /\ \A j \in DOMAIN sent :
                 \E i \in DOMAIN orig : SameRecord(sent[j], orig[i])
            /\ orig = <<>> => sent = <<>>

\* C3: when consent resolves to no there is no network call, no outcome
\* message, and the report payload is as it was received; resolving consent
\* never modifies the payload.
C3_DeclinedLeavesPayloadAndNetworkAlone ==
    /\ ConsentNo =>
         /\ posts = <<>>
         /\ response = NoResponse
         /\ ~OutcomePrinted
         /\ data = pluginReport
    /\ pc = "consent_resolved" => data = pluginReport

C3_Witness ==
    /\ pc = "done"
    /\ NoFlag
    /\ answer = <<"n", "o">>
    /\ report = "False"
    /\ Len(pluginReport.warnings) = 2
    /\ pluginReport.warnings[1] = pluginReport.warnings[2]
    /\ data = pluginReport
    /\ posts = <<>>

\* C4: with an explicit flag the decision is the flag's (--report: yes,
\* --no-report alone: no) and standard input is never read; the prompt is
\* issued only when neither flag is present, and then exactly once.
C4_FlagDecidesWithoutPrompt ==
    /\ stdinReads <= 1
    /\ "--report" \in argv =>
         stdinReads = 0 /\ (ConsentResolved => report = "True")
    /\ ("--no-report" \in argv /\ "--report" \notin argv) =>
         stdinReads = 0 /\ (ConsentResolved => report = "False")
    /\ ~NoFlag => PromptLine \notin Range(stdout)
    /\ (NoFlag /\ ConsentResolved) =>
         /\ stdinReads = 1
         /\ Cardinality({i \in DOMAIN stdout : stdout[i] = PromptLine}) = 1

C4_Witness ==
    /\ pc = "done"
    /\ "--no-report" \in argv
    /\ "--report" \notin argv
    /\ ConsentResolved
    /\ report = "False"
    /\ stdinReads = 0
    /\ stdout = <<>>

AnswersClaimedYes ==
    { <<"y">>, <<"Y">>, <<"y", "e", "s">>, <<"y", "e", "p">>,
      <<"w", "h", "y", " ", "n", "o", "t">> }

AnswersClaimedNo ==
    { <<>>, <<"n">>, <<"n", "o">>,
      <<"m", "a", "y", "b", "e", " ", "l", "a", "t", "e", "r">> }

\* C5 (as claimed): with no flag the decision is yes exactly when the answer
\* holds a y in either case; "y", "Y", "yes", "yep", "why not" give yes and
\* "", "n", "no", "maybe later" give no.
C5_AsClaimed ==
    (NoFlag /\ ConsentResolved) =>
        /\ report = "True" <=> ContainsY(answer)
        /\ answer \in AnswersClaimedYes => report = "True"
        /\ answer \in AnswersClaimedNo => report = "False"

\* C5 (amended): with no flag the decision is yes exactly when the answer
\* holds a y in either case; "y", "Y", "yes", "yep", "why not" and also
\* "maybe later" (it holds a y) give yes; "", "n", "no" give no.
C5_YesIffAnswerHoldsY ==
    (NoFlag /\ ConsentResolved) =>
        /\ report \in {"True", "False"}
        /\ report = "True" <=> ContainsY(answer)
        /\ answer \in AnswersClaimedYes
                      \cup {<<"m", "a", "y", "b", "e", " ", "l", "a", "t", "e", "r">>}
              => report = "True"
        /\ answer \in {<<>>, <<"n">>, <<"n", "o">>} => report = "False"

C5_Witness ==
    /\ pc = "done"
    /\ NoFlag
    /\ answer = <<"m", "a", "y", "b", "e", " ", "l", "a", "t", "e", "r">>
    /\ report = "True"
    /\ Len(posts) = 1

C7_SuccessMessageHoldsUrlOrHost ==
    /\ response.status_code = 200 =>
         ~\E i \in DOMAIN stdout : IsErrorLine(stdout[i])
    /\ (response.status_code = 200 /\ response.body.kind = "object"
        /\ pc # "responded") =>
         LET urls == {p[2] : p \in {q \in response.body.fields : q[1] = "url"}}
             shown == IF urls = {} THEN {"tests.obspy.org"} ELSE urls
         IN  \E i \in DOMAIN stdout :
                 IsSuccessLine(stdout[i]) /\ shown \subseteq Range(stdout[i])

C7_Witness ==
    /\ pc = "done"
    /\ response.status_code = 200
    /\ response.body = [kind |-> "object",
                        fields |-> {<<"url", "https://tests.example/r/42">>}]
    /\ \E i \in DOMAIN stdout :
         IsSuccessLine(stdout[i]) /\ "https://tests.example/r/42" \in Range(stdout[i])

\* C8 (as claimed): for a 200 response whose body is not parsable the
\* success message is still printed, with the bare host in place of a URL,
\* and no exception escapes.
C8_UnparsableBodyFallsBackToHost ==
    (response.status_code = 200 /\ response.body.kind = "not json"
     /\ pc # "responded") =>
        /\ \E i \in DOMAIN stdout :
             IsSuccessLine(stdout[i]) /\ REPORT_URL \in Range(stdout[i])
        /\ exc = "none" /\ pc # "crashed"

\* C9 (as claimed): when the POST fails at the transport level (no response
\* comes back) a console message reports it, no exception escapes and the
\* process goes on to exit with the test framework's status.
C9_TransportFailureIsNotFatal ==
    (posts # <<>> /\ response = NoResponse) =>
        /\ OutcomePrinted
        /\ exc = "none" /\ pc # "crashed"
        /\ exitCode \in {-1, status}

\* C10 (as claimed): the steps run in the order normalize, resolve consent,
\* submit, after the pytest run has finished and the working directory has
\* been restored.
C10_AsClaimed ==
    /\ Before("normalize", "consent")
    /\ Before("consent", "submit")
    /\ \A c \in UploadSteps : Before("pytest", c) /\ Before("restore cwd", c)
    /\ Range(log) \cap UploadSteps # {} => cwd = "here" /\ status # -1

\* C10 (amended): the steps run strictly one after the other in the order
\* resolve consent, normalize, submit, the last two only when consent is
\* yes; the pytest run has finished and the working directory has been
\* restored before any of the three begins.
C10_ConsentThenNormalizeThenSubmit ==
    /\ IsPrefix(log, <<"pytest", "restore cwd", "consent", "normalize", "submit">>)
    /\ Before("consent", "normalize")
    /\ Before("normalize", "submit")
    /\ \A c \in UploadSteps : Before("pytest", c) /\ Before("restore cwd", c)
    /\ Range(log) \cap UploadSteps # {} => cwd = "here" /\ status # -1
    /\ "normalize" \in Range(log) => ConsentYes
    /\ pc \in {"upload", "consent_resolved", "normalized", "responded", "returned"}
         => cwd = "here" /\ status # -1

C10_Witness ==
    /\ pc = "done"
    /\ log = <<"pytest", "restore cwd", "consent", "normalize", "submit">>
    /\ cwd = "here"
    /\ Len(pluginReport.warnings) = 2
    /\ Len(data.warnings) = 1

====
